---- MODULE Spec2Model ----
(***************************************************************************)
(* Model of the controller orchestration engine of zigbee-herdsman         *)
(* (src/src/controller/controller.ts): the device-join / interview         *)
(* handler onDeviceJoined, the frame handler onZclData, join admission     *)
(* (permitJoin, its renewal timer, getPermitJoin, stop), start, and the    *)
(* handlers onDeviceAnnounce and onAdapterDisconnected.                    *)
(*                                                                         *)
(* Every handler is an async function.  It is split at each `await` of     *)
(* controller.ts: one action runs the synchronous code from one await to   *)
(* the call of the next awaited operation; the operation takes effect at   *)
(* the call, and the handler resumes in a later action.  Handlers of       *)
(* different events interleave at these points.  The default-response      *)
(* send ends the frame handler, so the send and its outcome are one step.  *)
(*                                                                         *)
(* Device, Endpoint, the zcl frame and the command lookup table live in    *)
(* files that are not part of the source at hand; they are modelled from   *)
(* the specification (a repository of Device records with find / create /  *)
(* update operations and a per-device interview marker).  The adapter is   *)
(* a log of the commands the controller issued to it; a command may        *)
(* succeed or fail.  Timers of the runtime (setInterval, setTimeout) are   *)
(* the set of armed timers; a tick is one firing of an armed timer.        *)
(***************************************************************************)
EXTENDS Integers, Sequences, FiniteSets, TLC

\* ------------------------------------------------------------------ bounds
\* Number of join notifications and of frames the adapter delivers.
MaxJoins == 2
MaxFrames == 2
\* Number of permitJoin calls and of renewal-timer firings.
MaxPermitCalls == 2
MaxTicks == 2
\* Number of start calls, of device announces and of adapter disconnects.
MaxStarts == 2
MaxAnnounces == 2
MaxDisconnects == 1

\* ------------------------------------------------------------- input sets
IeeeAddrs == {"0xAA", "0xBB"}
NetworkAddresses == {1, 2}

\* The absent device reference (find returned nothing) and the unset model id.
NoDevice == 0
Unset == "unset"

VARIABLES
    devices,   \* the repository: sequence of Device records, never shortened
    joins,     \* invocations of onDeviceJoined, in arrival order
    frames,    \* invocations of onZclData, in arrival order
    events,    \* what the controller has emitted, in order
    permitJoinTimer, \* the field this.permitJoinTimer: a timer handle or NoTimer
    timers,    \* the interval timers armed in the runtime (handles)
    timersCreated,   \* how many interval timers setInterval has created
    ticks,     \* how many times an interval timer has fired
    permits,   \* invocations of permitJoin, in call order
    stops,     \* invocations of stop, in call order
    adapterCalls,    \* the commands issued to the adapter, in order
    unhandled, \* the promise rejections nobody handles
    starts,    \* invocations of start, in call order
    announces, \* invocations of onDeviceAnnounce, in arrival order
    disconnects,     \* invocations of onAdapterDisconnected, in arrival order
    groups,    \* the group ids of the Group records
    appCommands      \* the application commands sent to endpoints and groups

\* The state of the repository and its handlers, of join admission, and of
\* the controller's life cycle.
handlerVars == <<joins, frames>>
permitVars == <<permitJoinTimer, timers, timersCreated, ticks, permits, stops>>
lifeVars == <<starts, announces, disconnects, groups, appCommands>>
vars == <<devices, joins, frames, events, permitJoinTimer, timers,
          timersCreated, ticks, permits, stops, adapterCalls, unhandled,
          starts, announces, disconnects, groups, appCommands>>

\* ------------------------------------------------------- Device (repository)
\* A Device record as Device.create builds it for a join: no type, no
\* endpoints, no model id, not interviewed, no interview running.
NewDevice(ieeeAddr, networkAddress) ==
    [ieeeAddr |-> ieeeAddr, networkAddress |-> networkAddress,
     modelID |-> Unset, interviewed |-> FALSE, interviewing |-> FALSE,
     endpoints |-> <<>>, type |-> Unset]

\* Device.findByIeeeAddr on the repository devs: the first record with that
\* hardware address, or NoDevice.
Device_findByIeeeAddr(devs, ieeeAddr) ==
    LET found == {i \in 1..Len(devs) : devs[i].ieeeAddr = ieeeAddr}
    IN  IF found = {} THEN NoDevice
        ELSE CHOOSE i \in found : \A k \in found : i <= k

\* Device.create: the record is added to the repository.
Device_create(devs, ieeeAddr, networkAddress) ==
    Append(devs, NewDevice(ieeeAddr, networkAddress))

\* device.set(key, value): one field of one record is rewritten.
Device_set(devs, d, key, value) ==
    [devs EXCEPT ![d] = [devs[d] EXCEPT ![key] = value]]

\* ------------------------------------------------------------------ events
Event(type, src, by, d, status, endpoint) ==
    [type |-> type, src |-> src, by |-> by, device |-> d,
     status |-> status, endpoint |-> endpoint]

\* ---------------------------------------------------------- onDeviceJoined
\* Mutant of NetworkAddressChanged: a re-join never updates the address.
NetworkAddressChanged_Never(dev, networkAddress) ==
    FALSE

\* line 181: the stored network address differs from the notified one.
NetworkAddressChanged(dev, networkAddress) ==
    dev.networkAddress # networkAddress

\* Mutant of NotInterviewed: every join interviews the device.
NotInterviewed_Always(dev) ==
    TRUE

\* line 186: the device still has to be interviewed.
NotInterviewed(dev) ==
    ~dev.interviewed

\* line 192: the interview-finished event is emitted for every status but
\* alreadyInProgress.
PublishDone(status) ==
    status # "alreadyInProgress"

\* lines 186-191: if the device is not interviewed, emit interview-started
\* and call device.interview().  The call returns alreadyInProgress when the
\* device's interview marker is set, and sets the marker otherwise.
\* Result: the repository, the event log and the handler's next position.
InterviewStep(j, d, devs, evs) ==
    IF NotInterviewed(devs[d])
    THEN [devices |-> IF devs[d].interviewing THEN devs
                      ELSE Device_set(devs, d, "interviewing", TRUE),
          events  |-> Append(evs, Event("deviceInterview", "join", j, d, "started", 0)),
          pc      |-> "interview",
          status  |-> IF devs[d].interviewing THEN "alreadyInProgress" ELSE "running"]
    ELSE [devices |-> devs, events |-> evs, pc |-> "done", status |-> "none"]

\* The adapter emits deviceJoined{ieeeAddr, networkAddress}; the handler
\* starts and calls Device.findByIeeeAddr (line 171).
DeviceJoined(ieeeAddr, networkAddress) ==
    /\ Len(joins) < MaxJoins
    /\ joins' = Append(joins,
                   [ieeeAddr |-> ieeeAddr, networkAddress |-> networkAddress,
                    pc |-> "findByIeeeAddr",
                    device |-> Device_findByIeeeAddr(devices, ieeeAddr),
                    found |-> Device_findByIeeeAddr(devices, ieeeAddr) # NoDevice,
                    writes |-> <<>>, status |-> "none"])
    /\ UNCHANGED <<devices, frames, events>>

\* lines 172-179: no device was found: Device.create is called.
JoinCreate(j) ==
    /\ joins[j].pc = "findByIeeeAddr"
    /\ joins[j].device = NoDevice
    /\ devices' = Device_create(devices, joins[j].ieeeAddr, joins[j].networkAddress)
    /\ joins' = [joins EXCEPT ![j].pc = "create", ![j].device = Len(devices) + 1,
                              ![j].writes = Append(@, "create")]
    /\ UNCHANGED <<frames, events>>

\* lines 181-183: a device was found with another network address:
\* device.set('networkAddress', ...) is called.
JoinSetNetworkAddress(j) ==
    /\ joins[j].pc = "findByIeeeAddr"
    /\ joins[j].device # NoDevice
    /\ NetworkAddressChanged(devices[joins[j].device], joins[j].networkAddress)
    /\ devices' = Device_set(devices, joins[j].device, "networkAddress",
                             joins[j].networkAddress)
    /\ joins' = [joins EXCEPT ![j].pc = "set",
                              ![j].writes = Append(@, "networkAddress")]
    /\ UNCHANGED <<frames, events>>

\* lines 181, 186-191: a device was found with the same network address.
JoinKnown(j) ==
    /\ joins[j].pc = "findByIeeeAddr"
    /\ joins[j].device # NoDevice
    /\ ~NetworkAddressChanged(devices[joins[j].device], joins[j].networkAddress)
    /\ LET r == InterviewStep(j, joins[j].device, devices, events)
       IN  /\ devices' = r.devices
           /\ events' = r.events
           /\ joins' = [joins EXCEPT ![j].pc = r.pc, ![j].status = r.status]
    /\ UNCHANGED frames

\* lines 180, 186-191: Device.create has returned: emit deviceJoined, then
\* the interview check.
JoinAfterCreate(j) ==
    /\ joins[j].pc = "create"
    /\ LET d == joins[j].device
           r == InterviewStep(j, d, devices,
                    Append(events, Event("deviceJoined", "join", j, d, "none", 0)))
       IN  /\ devices' = r.devices
           /\ events' = r.events
           /\ joins' = [joins EXCEPT ![j].pc = r.pc, ![j].status = r.status]
    /\ UNCHANGED frames

\* lines 186-191: device.set has returned: the interview check.
JoinAfterSet(j) ==
    /\ joins[j].pc = "set"
    /\ LET r == InterviewStep(j, joins[j].device, devices, events)
       IN  /\ devices' = r.devices
           /\ events' = r.events
           /\ joins' = [joins EXCEPT ![j].pc = r.pc, ![j].status = r.status]
    /\ UNCHANGED frames

\* lines 191-197: device.interview() of a running interview resolves with
\* status successful or failed: the device leaves the interviewing state and
\* the handler emits the interview-finished event.
JoinInterviewDone(j, status) ==
    /\ joins[j].pc = "interview"
    /\ joins[j].status = "running"
    /\ LET d == joins[j].device
       IN  devices' = [devices EXCEPT ![d].interviewing = FALSE,
                                      ![d].interviewed = (status = "successful")]
    /\ events' = IF PublishDone(status)
                 THEN Append(events, Event("deviceInterview", "join", j,
                                           joins[j].device, status, 0))
                 ELSE events
    /\ joins' = [joins EXCEPT ![j].pc = "done", ![j].status = status]
    /\ UNCHANGED frames

\* lines 191-192: device.interview() returned alreadyInProgress: nothing is
\* emitted.
JoinAlreadyInProgress(j) ==
    /\ joins[j].pc = "interview"
    /\ joins[j].status = "alreadyInProgress"
    /\ events' = IF PublishDone(joins[j].status)
                 THEN Append(events, Event("deviceInterview", "join", j,
                                           joins[j].device, joins[j].status, 0))
                 ELSE events
    /\ joins' = [joins EXCEPT ![j].pc = "done"]
    /\ UNCHANGED <<devices, frames>>

\* ---------------------------------------------------------------- zcl frame
\* FrameType (zcl) and the Foundation command ids the handler compares with.
FrameType_GLOBAL == 0
FrameType_SPECIFIC == 1
Foundation_readRsp_ID == 1
Foundation_report_ID == 10

\* The frame bodies: a list of attribute records (global commands) or
\* nothing the handler looks into (cluster commands).
PayloadX == <<[attrId |-> "modelId", attrData |-> "X"]>>
PayloadY == <<[attrId |-> "zclVersion", attrData |-> "1"],
              [attrId |-> "modelId", attrData |-> "Y"]>>

\* Header and body of the decoded frames the adapter delivers:
\* frameType, commandIdentifier, the command's symbolic name, ClusterID.
\* Global report and read response (cluster 0), a global read (id 0), the
\* cluster commands on (id 1) and off (id 0) of cluster 6, and a frame of a
\* reserved frame type (2) that carries the report id.
Commands ==
    { [frameType |-> FrameType_GLOBAL, commandIdentifier |-> Foundation_report_ID,
       name |-> "report", ClusterID |-> 0],
      [frameType |-> FrameType_GLOBAL, commandIdentifier |-> Foundation_readRsp_ID,
       name |-> "readRsp", ClusterID |-> 0],
      [frameType |-> FrameType_GLOBAL, commandIdentifier |-> 0,
       name |-> "read", ClusterID |-> 0],
      [frameType |-> FrameType_SPECIFIC, commandIdentifier |-> 1,
       name |-> "on", ClusterID |-> 6],
      [frameType |-> FrameType_SPECIFIC, commandIdentifier |-> 0,
       name |-> "off", ClusterID |-> 6],
      [frameType |-> 2, commandIdentifier |-> Foundation_report_ID,
       name |-> "report", ClusterID |-> 0] }

\* The bodies a command is delivered with: a report with no attribute or
\* with model id X, a read response with two attributes, the last one model
\* id Y; the other commands carry nothing the handler looks into.
Payloads(c) ==
    IF c.frameType = FrameType_GLOBAL /\ c.name = "report" THEN {<<>>, PayloadX}
    ELSE IF c.frameType = FrameType_GLOBAL /\ c.name = "readRsp" THEN {PayloadY}
    ELSE {<<>>}

Frame(c, ddr, p) ==
    [Header |-> [frameType |-> c.frameType,
                 commandIdentifier |-> c.commandIdentifier,
                 disableDefaultResponse |-> ddr],
     name |-> c.name, ClusterID |-> c.ClusterID, Payload |-> p]

\* The frames the adapter delivers.
InboundFrames ==
    UNION { {Frame(c, ddr, p) : ddr \in BOOLEAN, p \in Payloads(c)} : c \in Commands }

\* The (network address, endpoint id) pairs frames come from: address 2 is
\* the persisted device's (endpoint 1 known, endpoint 2 not yet), address 1
\* is no device's.
InboundSources == { <<1, 1>>, <<2, 1>>, <<2, 2>> }

\* frame.getCommand(): the command the header names.
Frame_getCommand(frame) ==
    [ID |-> frame.Header.commandIdentifier, name |-> frame.name]

\* CommandsLookup (./events): command name -> message kind; "none" stands for
\* a name the table does not hold.
CommandsLookup(name) ==
    IF name = "on" THEN "commandOn" ELSE "none"

\* ZclFrameConverter.attributeList: the attribute records flattened into a
\* mapping attribute id -> value (a later record of an id wins).
ZclFrameConverter_attributeList(frame) ==
    LET p == frame.Payload
        ids == {p[i].attrId : i \in 1..Len(p)}
        last(id) == CHOOSE i \in 1..Len(p) :
                        /\ p[i].attrId = id
                        /\ \A k \in 1..Len(p) : p[k].attrId = id => k <= i
    IN  [id \in ids |-> p[last(id)].attrData]

\* data.modelId of the flattened mapping, Unset when it holds none.
Data_modelId(data) ==
    IF "modelId" \in DOMAIN data THEN data["modelId"] ELSE Unset

\* ------------------------------------------------------ Device (for frames)
\* Device.findByNetworkAddress: the first record with that network address.
Device_findByNetworkAddress(devs, networkAddress) ==
    LET found == {i \in 1..Len(devs) : devs[i].networkAddress = networkAddress}
    IN  IF found = {} THEN NoDevice
        ELSE CHOOSE i \in found : \A k \in found : i <= k

\* device.getEndpoint(id): whether the device has an endpoint of that id.
Device_getEndpoint(dev, id) ==
    \E i \in 1..Len(dev.endpoints) : dev.endpoints[i] = id

\* device.createEndpoint(id): an Endpoint of that id is added to the device.
Device_createEndpoint(devs, d, id) ==
    [devs EXCEPT ![d].endpoints = Append(@, id)]

\* --------------------------------------------------------------- onZclData
\* Mutant of Classify: the frame type is not looked at for the report and
\* read-response command ids.
Classify_IgnoreFrameType(frame) ==
    IF frame.Header.commandIdentifier = Foundation_report_ID THEN "attributeReport"
    ELSE IF frame.Header.commandIdentifier = Foundation_readRsp_ID THEN "readResponse"
    ELSE IF frame.Header.frameType = FrameType_SPECIFIC
    THEN CommandsLookup(Frame_getCommand(frame).name)
    ELSE "none"

\* lines 216-236: the message kind of a frame, "none" when it gets none.
Classify(frame) ==
    IF frame.Header.frameType = FrameType_GLOBAL
    THEN IF frame.Header.commandIdentifier = Foundation_report_ID THEN "attributeReport"
         ELSE IF frame.Header.commandIdentifier = Foundation_readRsp_ID THEN "readResponse"
         ELSE "none"
    ELSE IF frame.Header.frameType = FrameType_SPECIFIC
    THEN CommandsLookup(Frame_getCommand(frame).name)
    ELSE "none"

\* Mutant of BackfillModelID: the stored model id is not looked at.
BackfillModelID_Overwrite(type, frame, dev) ==
    /\ type \in {"readResponse", "attributeReport"}
    /\ Data_modelId(ZclFrameConverter_attributeList(frame)) # Unset

\* line 239: the model id is backfilled from this frame.
BackfillModelID(type, frame, dev) ==
    /\ type \in {"readResponse", "attributeReport"}
    /\ Data_modelId(ZclFrameConverter_attributeList(frame)) # Unset
    /\ dev.modelID = Unset

\* Mutant of ResponseNeeded: the header's flag is not looked at.
ResponseNeeded_Always(frame) ==
    TRUE

\* line 252: a default response has to be sent.
ResponseNeeded(frame) ==
    ~frame.Header.disableDefaultResponse

\* line 254: the default response: command id, status 0, cluster id, sent
\* through the endpoint the frame referenced.
DefaultResponse(h) ==
    [commandID |-> Frame_getCommand(h.frame).ID, status |-> 0,
     clusterID |-> h.frame.ClusterID, device |-> h.device, endpoint |-> h.endpoint]

\* Mutant of SendOutcome: no try/catch around the send.
SendOutcome_Uncaught(h, ok) ==
    [h EXCEPT !.pc = "done", !.failed = ~ok, !.raised = ~ok]

\* lines 253-257: the send succeeded, or it threw and the error is caught
\* and logged: the handler ends normally either way.
SendOutcome(h, ok) ==
    [h EXCEPT !.pc = "done", !.failed = ~ok]

\* lines 243-258: emit the message event if a kind was assigned, then call
\* endpoint.defaultResponse unless the header disables it; ok is whether the
\* send succeeds.  Nothing of the controller runs after the send but the
\* catch, so the send and its outcome are one step.
\* sentAfter records how many events had been emitted when the send began.
EmitStep(f, h, devs, evs, ok) ==
    LET emitted == IF h.type # "none"
                   THEN Append(evs, Event("message", "zcl", f, h.device, h.type,
                                          h.endpoint))
                   ELSE evs
    IN  [devices |-> devs,
         events  |-> emitted,
         handler |-> IF ResponseNeeded(h.frame)
                     THEN SendOutcome([h EXCEPT !.responses = Append(@, DefaultResponse(h)),
                                                !.sentAfter = Len(emitted)], ok)
                     ELSE [h EXCEPT !.pc = "done"]]

\* lines 216-241, then 243-254 when nothing is to be persisted: classify the
\* frame; call device.set('modelID', ...) when the model id is backfilled.
ClassifyStep(f, h, devs, evs, ok) ==
    LET type == Classify(h.frame)
        k    == [h EXCEPT !.type = type]
    IN  IF BackfillModelID(type, h.frame, devs[h.device])
        THEN [devices |-> Device_set(devs, h.device, "modelID",
                              Data_modelId(ZclFrameConverter_attributeList(h.frame))),
              events  |-> evs,
              handler |-> [k EXCEPT !.pc = "set", !.writes = Append(@, "modelID")]]
        ELSE EmitStep(f, k, devs, evs, ok)

\* The adapter emits zclData; the handler starts and calls
\* Device.findByNetworkAddress (line 204).
ZclData(networkAddress, endpoint, frame) ==
    /\ Len(frames) < MaxFrames
    /\ frames' = Append(frames,
                    [networkAddress |-> networkAddress, endpoint |-> endpoint,
                     frame |-> frame, pc |-> "findByNetworkAddress",
                     device |-> Device_findByNetworkAddress(devices, networkAddress),
                     type |-> "none", writes |-> <<>>, responses |-> <<>>,
                     sentAfter |-> 0, failed |-> FALSE, raised |-> FALSE])
    /\ UNCHANGED <<devices, joins, events>>

\* Mutant of ZclUnknownDevice: no early return, the message is published
\* with an absent device.
ZclUnknownDevice_Publish(f) ==
    /\ frames[f].pc = "findByNetworkAddress"
    /\ frames[f].device = NoDevice
    /\ events' = IF Classify(frames[f].frame) # "none"
                 THEN Append(events, Event("message", "zcl", f, NoDevice,
                                           Classify(frames[f].frame), frames[f].endpoint))
                 ELSE events
    /\ frames' = [frames EXCEPT ![f].pc = "done"]
    /\ UNCHANGED <<devices, joins>>

\* lines 205-208: no device has that network address: return.
ZclUnknownDevice(f) ==
    /\ frames[f].pc = "findByNetworkAddress"
    /\ frames[f].device = NoDevice
    /\ frames' = [frames EXCEPT ![f].pc = "done"]
    /\ UNCHANGED <<devices, joins, events>>

\* Mutant of ZclCreateEndpoint: the endpoint is created without looking for
\* it first.
ZclCreateEndpoint_Unchecked(f) ==
    /\ frames[f].pc = "findByNetworkAddress"
    /\ frames[f].device # NoDevice
    /\ devices' = Device_createEndpoint(devices, frames[f].device, frames[f].endpoint)
    /\ frames' = [frames EXCEPT ![f].pc = "createEndpoint",
                                ![f].writes = Append(@, "createEndpoint")]
    /\ UNCHANGED <<joins, events>>

\* lines 210-213: the device has no such endpoint: device.createEndpoint.
ZclCreateEndpoint(f) ==
    /\ frames[f].pc = "findByNetworkAddress"
    /\ frames[f].device # NoDevice
    /\ ~Device_getEndpoint(devices[frames[f].device], frames[f].endpoint)
    /\ devices' = Device_createEndpoint(devices, frames[f].device, frames[f].endpoint)
    /\ frames' = [frames EXCEPT ![f].pc = "createEndpoint",
                                ![f].writes = Append(@, "createEndpoint")]
    /\ UNCHANGED <<joins, events>>

\* lines 210-211, 216-258: the device has the endpoint.
ZclKnownEndpoint(f, ok) ==
    /\ frames[f].pc = "findByNetworkAddress"
    /\ frames[f].device # NoDevice
    /\ Device_getEndpoint(devices[frames[f].device], frames[f].endpoint)
    /\ LET r == ClassifyStep(f, frames[f], devices, events, ok)
       IN  /\ devices' = r.devices
           /\ events' = r.events
           /\ frames' = [frames EXCEPT ![f] = r.handler]
    /\ UNCHANGED joins

\* lines 216-258: device.createEndpoint has returned.
ZclAfterCreateEndpoint(f, ok) ==
    /\ frames[f].pc = "createEndpoint"
    /\ LET r == ClassifyStep(f, frames[f], devices, events, ok)
       IN  /\ devices' = r.devices
           /\ events' = r.events
           /\ frames' = [frames EXCEPT ![f] = r.handler]
    /\ UNCHANGED joins

\* lines 243-258: device.set('modelID', ...) has returned.
ZclAfterSet(f, ok) ==
    /\ frames[f].pc = "set"
    /\ LET r == EmitStep(f, frames[f], devices, events, ok)
       IN  /\ devices' = r.devices
           /\ events' = r.events
           /\ frames' = [frames EXCEPT ![f] = r.handler]
    /\ UNCHANGED joins

\* ------------------------------------------------------------------ adapter
\* The duration the adapter is asked to keep joining open, and the duration
\* that closes it.
PermitJoinOpen == 254
PermitJoinClose == 0

\* One command issued to the adapter; by names the invocation that issued it.
AdapterCall(cmd, arg, by) == [cmd |-> cmd, arg |-> arg, by |-> by]

\* A rejected promise that nothing awaits or catches: who made the call, and
\* which adapter command was rejected (NoCall for an error raised in code).
NoCall == 0
Rejections(unh, by, call, ok) ==
    IF ok THEN unh ELSE unh \cup {[by |-> by, call |-> call]}

\* ------------------------------------------------- permitJoin, getPermitJoin
\* The value of this.permitJoinTimer when no timer handle is stored in it.
NoTimer == 0

\* One invocation of permitJoin; armed is the handle of the timer it created,
\* afterStop tells whether stop had been called when it was made.
PermitCall(permit, pc) ==
    [permit |-> permit, pc |-> pc, armed |-> NoTimer, raised |-> FALSE,
     afterStop |-> stops # <<>>]

\* Mutant of TimersAfterTick: a failed command clears the timer.
TimersAfterTick_CancelOnFailure(ts, t, ok) == IF ok THEN ts ELSE ts \ {t}

\* lines 103-106: the armed timers after timer t fired and its command
\* ended with outcome ok: an interval timer keeps firing whatever its
\* callback does.
TimersAfterTick(ts, t, ok) == ts

\* permitJoin(true) with no timer stored: the adapter is asked to open
\* joining, and the call waits for the adapter.
PermitJoinEnable ==
    /\ Len(permits) < MaxPermitCalls
    /\ permitJoinTimer = NoTimer
    /\ adapterCalls' = Append(adapterCalls,
           AdapterCall("permitJoin", PermitJoinOpen,
                       <<"permitJoin", Len(permits) + 1>>))
    /\ permits' = Append(permits, PermitCall(TRUE, "adapter.permitJoin"))
    /\ UNCHANGED <<permitJoinTimer, timers, timersCreated, ticks, stops,
                   unhandled>>

\* The adapter answered: on success an interval timer is created and its
\* handle stored; on failure the call raises.
PermitJoinArm(p, ok) ==
    /\ permits[p].pc = "adapter.permitJoin"
    /\ IF ok
       THEN /\ timersCreated' = timersCreated + 1
            /\ timers' = timers \cup {timersCreated + 1}
            /\ permitJoinTimer' = timersCreated + 1
            /\ permits' = [permits EXCEPT ![p].pc = "done",
                                          ![p].armed = timersCreated + 1]
       ELSE /\ permits' = [permits EXCEPT ![p].pc = "done",
                                          ![p].raised = TRUE]
            /\ UNCHANGED <<timersCreated, timers, permitJoinTimer>>
    /\ UNCHANGED <<ticks, stops, adapterCalls, unhandled>>

\* permitJoin(true) with a timer stored: nothing but a log line.
PermitJoinAlready ==
    /\ Len(permits) < MaxPermitCalls
    /\ permitJoinTimer # NoTimer
    /\ permits' = Append(permits, PermitCall(TRUE, "done"))
    /\ UNCHANGED <<permitJoinTimer, timers, timersCreated, ticks, stops,
                   adapterCalls, unhandled>>

\* The branch of permitJoin(false): the adapter is asked to close joining
\* (the command is not awaited), the stored timer is cleared and forgotten.
DisableJoining(by, ok) ==
    /\ adapterCalls' = Append(adapterCalls,
           AdapterCall("permitJoin", PermitJoinClose, by))
    /\ unhandled' = Rejections(unhandled, by, Len(adapterCalls) + 1, ok)
    /\ timers' = timers \ {permitJoinTimer}
    /\ permitJoinTimer' = NoTimer

PermitJoinDisable(ok) ==
    /\ Len(permits) < MaxPermitCalls
    /\ DisableJoining(<<"permitJoin", Len(permits) + 1>>, ok)
    /\ permits' = Append(permits, PermitCall(FALSE, "done"))
    /\ UNCHANGED <<timersCreated, ticks, stops>>

\* One firing of the armed interval timer t: the adapter is asked to open
\* joining again; nothing handles a failure of the command.
TimerTick(t, ok) ==
    /\ ticks < MaxTicks
    /\ ticks' = ticks + 1
    /\ adapterCalls' = Append(adapterCalls,
           AdapterCall("permitJoin", PermitJoinOpen, <<"timer", t>>))
    /\ unhandled' = Rejections(unhandled, <<"timer", t>>,
                                Len(adapterCalls) + 1, ok)
    /\ timers' = TimersAfterTick(timers, t, ok)
    /\ UNCHANGED <<permitJoinTimer, timersCreated, permits, stops>>

\* this.permitJoin is the method permitJoin, which every controller has.
Null == "null"
This_permitJoin == "method permitJoin"

GetPermitJoin == This_permitJoin # Null

\* ---------------------------------------------------------------------- stop
\* stop calls permitJoin(false), whose body runs at once.  A controller is
\* stopped once.
Stop(ok) ==
    /\ stops = <<>>
    /\ DisableJoining(<<"stop", Len(stops) + 1>>, ok)
    /\ stops' = Append(stops, [pc |-> "permitJoin", raised |-> FALSE])
    /\ UNCHANGED <<timersCreated, ticks, permits>>

\* permitJoin(false) returned: the adapter is asked to stop.
StopAdapter(s) ==
    /\ stops[s].pc = "permitJoin"
    /\ adapterCalls' = Append(adapterCalls,
           AdapterCall("stop", 0, <<"stop", s>>))
    /\ stops' = [stops EXCEPT ![s].pc = "adapter.stop"]
    /\ UNCHANGED <<permitJoinTimer, timers, timersCreated, ticks, permits,
                   unhandled>>

\* The adapter answered: stop returns, or raises what the adapter raised.
StopDone(s, ok) ==
    /\ stops[s].pc = "adapter.stop"
    /\ stops' = [stops EXCEPT ![s].pc = "done", ![s].raised = ~ok]
    /\ UNCHANGED <<permitJoinTimer, timers, timersCreated, ticks, permits,
                   adapterCalls, unhandled>>

\* --------------------------------------------------------------------- start
\* What adapter.getCoordinator reports, and the record Device.create builds
\* from it: a device of type Coordinator.
Coordinator ==
    [ieeeAddr |-> "0xC0", networkAddress |-> 0, endpoints |-> <<1>>]

CoordinatorDevice ==
    [NewDevice(Coordinator.ieeeAddr, Coordinator.networkAddress)
        EXCEPT !.type = "Coordinator", !.endpoints = Coordinator.endpoints]

\* Device.findByType: the records of that type.
Device_findByType(devs, type) ==
    SelectSeq(devs, LAMBDA d : d.type = type)

\* The hardware address and the group the callback start schedules works on.
TimeoutIeeeAddr == "0x000b57fffec6a5b2"
TimeoutGroupID == 1

\* One invocation of start; timeout is the position of the callback it
\* scheduled with setTimeout.
StartCall ==
    [pc |-> "Database.open", found |-> <<>>, raised |-> FALSE,
     created |-> 0, timeout |-> "none", device |-> NoDevice]

\* Mutant of CoordinatorMissing: the result of the lookup is not looked at.
CoordinatorMissing_Always(found) == TRUE

\* line 76: the coordinator is asked for and created only if none was found.
CoordinatorMissing(found) == Len(found) = 0

\* start is called (one at a time) and opens the database.
Start ==
    /\ Len(starts) < MaxStarts
    /\ \A s \in 1..Len(starts) : starts[s].pc = "done"
    /\ starts' = Append(starts, StartCall)
    /\ UNCHANGED <<devices, adapterCalls, unhandled, groups, appCommands>>

\* The database is open: the adapter is asked to start.  A failure to open
\* is raised to the caller.
StartAdapter(s, ok) ==
    /\ starts[s].pc = "Database.open"
    /\ IF ok
       THEN /\ adapterCalls' = Append(adapterCalls,
                   AdapterCall("start", 0, <<"start", s>>))
            /\ starts' = [starts EXCEPT ![s].pc = "adapter.start"]
       ELSE /\ starts' = [starts EXCEPT ![s].pc = "done", ![s].raised = TRUE]
            /\ UNCHANGED adapterCalls
    /\ UNCHANGED <<devices, unhandled, groups, appCommands>>

\* The adapter started: the coordinator is looked for in the repository.
StartFindCoordinator(s, ok) ==
    /\ starts[s].pc = "adapter.start"
    /\ starts' = IF ok
                 THEN [starts EXCEPT ![s].pc = "findByType",
                           ![s].found = Device_findByType(devices, "Coordinator")]
                 ELSE [starts EXCEPT ![s].pc = "done", ![s].raised = TRUE]
    /\ UNCHANGED <<devices, adapterCalls, unhandled, groups, appCommands>>

\* No coordinator found: the adapter is asked who the coordinator is.
StartGetCoordinator(s) ==
    /\ starts[s].pc = "findByType"
    /\ CoordinatorMissing(starts[s].found)
    /\ adapterCalls' = Append(adapterCalls,
           AdapterCall("getCoordinator", 0, <<"start", s>>))
    /\ starts' = [starts EXCEPT ![s].pc = "adapter.getCoordinator"]
    /\ UNCHANGED <<devices, unhandled, groups, appCommands>>

\* The adapter answered: the coordinator record is created, the callback is
\* scheduled, and start returns.
StartCreateCoordinator(s, ok) ==
    /\ starts[s].pc = "adapter.getCoordinator"
    /\ IF ok
       THEN /\ devices' = Append(devices, CoordinatorDevice)
            /\ starts' = [starts EXCEPT ![s].pc = "done",
                              ![s].created = Len(devices) + 1,
                              ![s].timeout = "armed"]
       ELSE /\ starts' = [starts EXCEPT ![s].pc = "done", ![s].raised = TRUE]
            /\ UNCHANGED devices
    /\ UNCHANGED <<adapterCalls, unhandled, groups, appCommands>>

\* A coordinator was found: the callback is scheduled, and start returns.
StartCoordinatorKnown(s) ==
    /\ starts[s].pc = "findByType"
    /\ ~CoordinatorMissing(starts[s].found)
    /\ starts' = [starts EXCEPT ![s].pc = "done", ![s].timeout = "armed"]
    /\ UNCHANGED <<devices, adapterCalls, unhandled, groups, appCommands>>

\* The callback start scheduled fires and looks a device up.
TimeoutFire(s) ==
    /\ starts[s].timeout = "armed"
    /\ starts' = [starts EXCEPT ![s].timeout = "findByIeeeAddr",
                      ![s].device = Device_findByIeeeAddr(devices, TimeoutIeeeAddr)]
    /\ UNCHANGED <<devices, adapterCalls, unhandled, groups, appCommands>>

\* getOrCreateGroup: the group is in the repository afterwards.
GetOrCreateGroup(gs, groupID) == gs \cup {groupID}

\* device.getEndpoint(1) on the result of the lookup: with no device the
\* callback raises, and nothing handles that; otherwise the group is fetched.
TimeoutGetGroup(s) ==
    /\ starts[s].timeout = "findByIeeeAddr"
    /\ IF starts[s].device = NoDevice
       THEN /\ unhandled' = Rejections(unhandled, <<"timeout", s>>, NoCall, FALSE)
            /\ starts' = [starts EXCEPT ![s].timeout = "done"]
            /\ UNCHANGED groups
       ELSE /\ groups' = GetOrCreateGroup(groups, TimeoutGroupID)
            /\ starts' = [starts EXCEPT ![s].timeout = "getOrCreateGroup"]
            /\ UNCHANGED unhandled
    /\ UNCHANGED <<devices, adapterCalls, appCommands>>

\* group.command('genOnOff', 'off', {}): a command is sent to the group.
TimeoutCommand(s) ==
    /\ starts[s].timeout = "getOrCreateGroup"
    /\ appCommands' = Append(appCommands,
           [group |-> TimeoutGroupID, cluster |-> "genOnOff",
            command |-> "off", by |-> <<"timeout", s>>])
    /\ starts' = [starts EXCEPT ![s].timeout = "done"]
    /\ UNCHANGED <<devices, adapterCalls, unhandled, groups>>

\* ---------------------------------------------------------- onDeviceAnnounce
\* Mutant of AnnounceEvent: the announce is published as a join.
AnnounceEvent_Joined(a, d) ==
    Event("deviceJoined", "announce", a, d, "none", 0)

\* The event onDeviceAnnounce emits: the announce with the looked-up device.
AnnounceEvent(a, d) ==
    Event("deviceAnnounce", "announce", a, d, "none", 0)

\* The adapter emits deviceAnnounce{ieeeAddr}; the handler looks the device up.
DeviceAnnounce(ieeeAddr) ==
    /\ Len(announces) < MaxAnnounces
    /\ announces' = Append(announces,
           [ieeeAddr |-> ieeeAddr, pc |-> "findByIeeeAddr",
            device |-> Device_findByIeeeAddr(devices, ieeeAddr)])
    /\ UNCHANGED <<devices, events, disconnects, adapterCalls>>

\* The lookup answered: the announce is emitted with what it found.
AnnounceEmit(a) ==
    /\ announces[a].pc = "findByIeeeAddr"
    /\ events' = Append(events, AnnounceEvent(a, announces[a].device))
    /\ announces' = [announces EXCEPT ![a].pc = "done"]
    /\ UNCHANGED <<devices, disconnects, adapterCalls>>

\* ----------------------------------------------------- onAdapterDisconnected
\* Mutant of StopFailureRaised: no try/catch around the stop.
StopFailureRaised_Uncaught(ok) == ~ok

\* lines 162-165, try { await this.adapter.stop() } catch (error) {}: a
\* failure to stop is swallowed.
StopFailureRaised(ok) == FALSE

\* The adapter emits disconnected; the handler asks the adapter to stop.
AdapterDisconnected ==
    /\ Len(disconnects) < MaxDisconnects
    /\ adapterCalls' = Append(adapterCalls,
           AdapterCall("stop", 0, <<"disconnect", Len(disconnects) + 1>>))
    /\ disconnects' = Append(disconnects,
           [pc |-> "adapter.stop", failed |-> FALSE, raised |-> FALSE])
    /\ UNCHANGED <<devices, events, announces>>

\* The adapter answered (failed tells that it could not stop):
\* adapterDisconnected is emitted unless the failure was raised.
DisconnectEmit(d, ok) ==
    /\ disconnects[d].pc = "adapter.stop"
    /\ disconnects' = [disconnects EXCEPT ![d].pc = "done",
                           ![d].failed = ~ok,
                           ![d].raised = StopFailureRaised(ok)]
    /\ events' = IF StopFailureRaised(ok) THEN events
                 ELSE Append(events, Event("adapterDisconnected", "disconnect",
                                           d, NoDevice, "none", 0))
    /\ UNCHANGED <<devices, announces, adapterCalls>>

\* ----------------------------------------------------------- specification
\* The repository is persisted: the controller may start on an empty one or
\* on one that holds devices of an earlier run (no interview is running then).
PersistedDevice(modelID) ==
    [ieeeAddr |-> "0xBB", networkAddress |-> 2, modelID |-> modelID,
     interviewed |-> TRUE, interviewing |-> FALSE, endpoints |-> <<1>>,
     type |-> Unset]

InitialRepositories ==
    { <<>>, <<PersistedDevice(Unset)>> }

\* A controller that has just been constructed: no timer handle, no timer,
\* nothing issued to the adapter, no call made.
InitControl ==
    /\ permitJoinTimer = NoTimer
    /\ timers = {}
    /\ timersCreated = 0
    /\ ticks = 0
    /\ permits = <<>>
    /\ stops = <<>>
    /\ adapterCalls = <<>>
    /\ unhandled = {}
    /\ starts = <<>>
    /\ announces = <<>>
    /\ disconnects = <<>>
    /\ groups = {}
    /\ appCommands = <<>>

Init ==
    /\ devices \in InitialRepositories
    /\ joins = <<>>
    /\ frames = <<>>
    /\ events = <<>>
    /\ InitControl

NextJoin ==
    /\ \/ \E ieeeAddr \in IeeeAddrs, networkAddress \in NetworkAddresses :
              DeviceJoined(ieeeAddr, networkAddress)
       \/ \E j \in 1..Len(joins) : JoinCreate(j)
       \/ \E j \in 1..Len(joins) : JoinSetNetworkAddress(j)
       \/ \E j \in 1..Len(joins) : JoinKnown(j)
       \/ \E j \in 1..Len(joins) : JoinAfterCreate(j)
       \/ \E j \in 1..Len(joins) : JoinAfterSet(j)
       \/ \E j \in 1..Len(joins), status \in {"successful", "failed"} :
              JoinInterviewDone(j, status)
       \/ \E j \in 1..Len(joins) : JoinAlreadyInProgress(j)
    /\ UNCHANGED <<permitVars, adapterCalls, unhandled, lifeVars>>

NextZcl ==
    /\ \/ \E source \in InboundSources, frame \in InboundFrames :
              ZclData(source[1], source[2], frame)
       \/ \E f \in 1..Len(frames) : ZclUnknownDevice(f)
       \/ \E f \in 1..Len(frames) : ZclCreateEndpoint(f)
       \/ \E f \in 1..Len(frames), ok \in BOOLEAN : ZclKnownEndpoint(f, ok)
       \/ \E f \in 1..Len(frames), ok \in BOOLEAN : ZclAfterCreateEndpoint(f, ok)
       \/ \E f \in 1..Len(frames), ok \in BOOLEAN : ZclAfterSet(f, ok)
    /\ UNCHANGED <<permitVars, adapterCalls, unhandled, lifeVars>>

\* Join notifications only.
SpecJoin == Init /\ [][NextJoin]_vars

\* Frames only, on a repository that holds one device whose model id is unset.
InitZcl ==
    /\ devices = <<PersistedDevice(Unset)>>
    /\ joins = <<>>
    /\ frames = <<>>
    /\ events = <<>>
    /\ InitControl

SpecZcl == InitZcl /\ [][NextZcl]_vars

\* Join admission only: permitJoin, the renewal timer, stop.
NextPermit ==
    /\ \/ PermitJoinEnable
       \/ \E p \in 1..Len(permits), ok \in BOOLEAN : PermitJoinArm(p, ok)
       \/ PermitJoinAlready
       \/ \E ok \in BOOLEAN : PermitJoinDisable(ok)
       \/ \E t \in timers, ok \in BOOLEAN : TimerTick(t, ok)
       \/ \E ok \in BOOLEAN : Stop(ok)
       \/ \E s \in 1..Len(stops) : StopAdapter(s)
       \/ \E s \in 1..Len(stops), ok \in BOOLEAN : StopDone(s, ok)
    /\ UNCHANGED <<devices, events, handlerVars, lifeVars>>

InitPermit ==
    /\ devices = <<>>
    /\ joins = <<>>
    /\ frames = <<>>
    /\ events = <<>>
    /\ InitControl

SpecPermit == InitPermit /\ [][NextPermit]_vars

\* start and the callback it schedules, on a persisted repository that may
\* hold the coordinator and the device the callback looks up.
TimeoutDevice ==
    [NewDevice(TimeoutIeeeAddr, 1) EXCEPT !.interviewed = TRUE,
                                          !.endpoints = <<1>>]

StartRepositories ==
    InitialRepositories \cup
        { <<CoordinatorDevice>>, <<CoordinatorDevice, TimeoutDevice>> }

NextStart ==
    /\ \/ Start
       \/ \E s \in 1..Len(starts), ok \in BOOLEAN : StartAdapter(s, ok)
       \/ \E s \in 1..Len(starts), ok \in BOOLEAN : StartFindCoordinator(s, ok)
       \/ \E s \in 1..Len(starts) : StartGetCoordinator(s)
       \/ \E s \in 1..Len(starts), ok \in BOOLEAN : StartCreateCoordinator(s, ok)
       \/ \E s \in 1..Len(starts) : StartCoordinatorKnown(s)
       \/ \E s \in 1..Len(starts) : TimeoutFire(s)
       \/ \E s \in 1..Len(starts) : TimeoutGetGroup(s)
       \/ \E s \in 1..Len(starts) : TimeoutCommand(s)
    /\ UNCHANGED <<events, announces, disconnects, handlerVars, permitVars>>

InitStart ==
    /\ devices \in StartRepositories
    /\ joins = <<>>
    /\ frames = <<>>
    /\ events = <<>>
    /\ InitControl

SpecStart == InitStart /\ [][NextStart]_vars

\* Device announces and adapter disconnects.
NextEvents ==
    /\ \/ \E ieeeAddr \in IeeeAddrs : DeviceAnnounce(ieeeAddr)
       \/ \E a \in 1..Len(announces) : AnnounceEmit(a)
       \/ AdapterDisconnected
       \/ \E d \in 1..Len(disconnects), ok \in BOOLEAN : DisconnectEmit(d, ok)
    /\ UNCHANGED <<unhandled, starts, groups, appCommands, handlerVars,
                   permitVars>>

SpecEvents == Init /\ [][NextEvents]_vars

\* ================================================================= claims
AllJoinsDone == \A j \in 1..Len(joins) : joins[j].pc = "done"
AllFramesDone == \A f \in 1..Len(frames) : frames[f].pc = "done"

\* The events handler j of onDeviceJoined emitted, in order.
JoinEvents(j) ==
    SelectSeq(events, LAMBDA e : e.src = "join" /\ e.by = j)

\* The events handler f of onZclData emitted, in order.
FrameEvents(f) ==
    SelectSeq(events, LAMBDA e : e.src = "zcl" /\ e.by = f)

\* Positions in the event log of the interview events of Device record d.
Started(d) ==
    {i \in 1..Len(events) : /\ events[i].type = "deviceInterview"
                            /\ events[i].device = d
                            /\ events[i].status = "started"}
Finished(d) ==
    {i \in 1..Len(events) : /\ events[i].type = "deviceInterview"
                            /\ events[i].device = d
                            /\ events[i].status \in {"successful", "failed"}}

\* Positions of the deviceJoined events for hardware address ieeeAddr.
Joined(ieeeAddr) ==
    {i \in 1..Len(events) : /\ events[i].type = "deviceJoined"
                            /\ devices[events[i].device].ieeeAddr = ieeeAddr}

\* C1: a join handler that finds the interview of its device in progress
\* emits no interview event, and no Device record has two interview-started
\* events without an interview-finished event between them.
C1_DuplicateJoinIsSilent ==
    /\ \A j \in 1..Len(joins) :
           joins[j].status = "alreadyInProgress" =>
               \A i \in 1..Len(JoinEvents(j)) :
                   JoinEvents(j)[i].type # "deviceInterview"
    /\ \A d \in 1..Len(devices) :
           \A i, k \in Started(d) :
               i < k => \E m \in Finished(d) : i < m /\ m < k

\* C2: once every join handler has completed, each Device record has as many
\* interview-finished events as interview-started events.
C2_StartedMatchesFinished ==
    AllJoinsDone =>
        \A d \in 1..Len(devices) : Cardinality(Started(d)) = Cardinality(Finished(d))

\* C3: the repository holds at most one Device per hardware address, and
\* deviceJoined is published at most once per hardware address, exactly once
\* when all joins are handled and a Device of that address was created, for
\* a Device without endpoints and before any interview-started event of it.
C3_OneDevicePerAddress ==
    \A a \in IeeeAddrs :
        /\ Cardinality({d \in 1..Len(devices) : devices[d].ieeeAddr = a}) <= 1
        /\ Cardinality(Joined(a)) <= 1
        /\ \A i \in Joined(a) : \A k \in Started(events[i].device) : i < k

\* C4: when a join handler resumes from the lookup with a Device that is
\* interviewed and stored under the notified network address, the step ends
\* the handler, emits nothing and leaves the repository as it is; the
\* handler has called no repository write.
C4_KnownInterviewedJoinIsSilent ==
    [][\A j \in 1..Len(joins) :
          ( /\ joins[j].pc = "findByIeeeAddr"
            /\ joins[j].device # NoDevice
            /\ devices[joins[j].device].interviewed
            /\ devices[joins[j].device].networkAddress = joins[j].networkAddress
            /\ joins'[j] # joins[j] )
          => /\ joins'[j].pc = "done"
             /\ joins'[j].writes = <<>>
             /\ events' = events
             /\ devices' = devices]_vars

\* C4 witness: a completed join of a known, interviewed device with the
\* stored network address, which emitted and wrote nothing.
C4_Witness ==
    \E j \in 1..Len(joins) :
        /\ joins[j].pc = "done"
        /\ joins[j].found
        /\ devices[joins[j].device].interviewed
        /\ devices[joins[j].device].networkAddress = joins[j].networkAddress
        /\ joins[j].status = "none"
        /\ joins[j].writes = <<>>
        /\ JoinEvents(j) = <<>>

\* C5: when a join handler resumes from the lookup with a Device stored
\* under another network address than the notified one, the step sets that
\* record's network address to the notified one and changes nothing else in
\* the repository and emits nothing; a handler that found its Device never
\* emits deviceJoined; no step removes a Device or changes a hardware address.
C5_RejoinUpdatesNetworkAddress ==
    [][ /\ \A j \in 1..Len(joins) :
              ( /\ joins[j].pc = "findByIeeeAddr"
                /\ joins[j].device # NoDevice
                /\ devices[joins[j].device].networkAddress # joins[j].networkAddress
                /\ joins'[j] # joins[j] )
              => /\ devices' = [devices EXCEPT ![joins[j].device].networkAddress =
                                                   joins[j].networkAddress]
                 /\ events' = events
        /\ \A j \in 1..Len(joins) :
              joins[j].found =>
                  \A i \in 1..Len(events') :
                      ~( /\ events'[i].type = "deviceJoined"
                         /\ events'[i].src = "join" /\ events'[i].by = j )
        /\ Len(devices') >= Len(devices)
        /\ \A d \in 1..Len(devices) : devices'[d].ieeeAddr = devices[d].ieeeAddr
      ]_vars

\* C5 witness: a re-join under a new network address has been stored while
\* another Device record is in the repository.
C5_Witness ==
    \E j \in 1..Len(joins) :
        /\ joins[j].found
        /\ joins[j].writes = <<"networkAddress">>
        /\ devices[joins[j].device].networkAddress = joins[j].networkAddress
        /\ devices[joins[j].device].ieeeAddr = joins[j].ieeeAddr
        /\ Len(devices) >= 2

\* The message events handler f of onZclData emitted.
FrameMessages(f) ==
    SelectSeq(FrameEvents(f), LAMBDA e : e.type = "message")

\* The default response the protocol asks for frame handler h.
ExpectedResponse(h) ==
    [commandID |-> h.frame.Header.commandIdentifier, status |-> 0,
     clusterID |-> h.frame.ClusterID, device |-> h.device, endpoint |-> h.endpoint]

\* C6 as claimed: every handled frame has no default response when its header
\* disables it and exactly the expected one otherwise.
C6_ResponseForEveryFrame ==
    \A f \in 1..Len(frames) :
        frames[f].pc = "done" =>
            IF frames[f].frame.Header.disableDefaultResponse
            THEN frames[f].responses = <<>>
            ELSE frames[f].responses = <<ExpectedResponse(frames[f])>>

\* C6 amended: no default response is sent for a frame whose header disables
\* it or whose network address resolves to no Device; for every other frame
\* exactly one send is made by the time the handler ends, with the frame's
\* command id, status 0, the frame's cluster id, through the referenced
\* endpoint, whatever the classification.
C6_DefaultResponse ==
    \A f \in 1..Len(frames) :
        /\ Len(frames[f].responses) <= 1
        /\ frames[f].frame.Header.disableDefaultResponse => frames[f].responses = <<>>
        /\ frames[f].device = NoDevice => frames[f].responses = <<>>
        /\ ( /\ frames[f].pc = "done"
             /\ ~frames[f].frame.Header.disableDefaultResponse
             /\ frames[f].device # NoDevice )
           => frames[f].responses = <<ExpectedResponse(frames[f])>>

\* C6 witness: a classified and an unclassified frame of a known device have
\* each been answered with one default response.
C6_Witness ==
    \E f, g \in 1..Len(frames) :
        /\ frames[f].pc = "done" /\ frames[g].pc = "done"
        /\ frames[f].device # NoDevice /\ frames[g].device # NoDevice
        /\ frames[f].type # "none" /\ frames[g].type = "none"
        /\ Len(FrameMessages(f)) = 1 /\ Len(FrameMessages(g)) = 0
        /\ Len(frames[f].responses) = 1 /\ Len(frames[g].responses) = 1

\* C7: a failed default-response send ends the handler without raising, and
\* the frame's message event (if it has a kind) was emitted before the send
\* began; no frame handler ever raises.
C7_SendFailureIsCaught ==
    \A f \in 1..Len(frames) :
        /\ ~frames[f].raised
        /\ frames[f].failed =>
              /\ frames[f].pc = "done"
              /\ Len(frames[f].responses) = 1
              /\ frames[f].type # "none" =>
                    \E i \in 1..frames[f].sentAfter :
                        /\ events[i].type = "message"
                        /\ events[i].src = "zcl" /\ events[i].by = f

\* C7 witness: the send for a classified frame failed, and a frame delivered
\* later was handled and published after that.
C7_Witness ==
    \E f, g \in 1..Len(frames) :
        /\ f < g
        /\ frames[f].failed /\ frames[f].pc = "done" /\ frames[f].type # "none"
        /\ frames[g].pc = "done" /\ frames[g].type # "none"
        /\ \E i \in 1..Len(events) :
               /\ i > frames[f].sentAfter
               /\ events[i].type = "message" /\ events[i].src = "zcl" /\ events[i].by = g

\* C8: the handler of a frame whose network address resolves to no Device
\* emits nothing, calls no repository write, sends no default response, does
\* not raise, and only returns.
C8_UnknownDeviceDropped ==
    \A f \in 1..Len(frames) :
        frames[f].device = NoDevice =>
            /\ FrameEvents(f) = <<>>
            /\ frames[f].writes = <<>>
            /\ frames[f].responses = <<>>
            /\ ~frames[f].raised
            /\ frames[f].pc \in {"findByNetworkAddress", "done"}

\* C8 witness: a report carrying a model id, default response not disabled,
\* from an unknown network address has been handled.
C8_Witness ==
    \E f \in 1..Len(frames) :
        /\ frames[f].device = NoDevice
        /\ frames[f].pc = "done"
        /\ frames[f].frame.Header.frameType = FrameType_GLOBAL
        /\ frames[f].frame.Header.commandIdentifier = Foundation_report_ID
        /\ frames[f].frame.Payload = PayloadX
        /\ ~frames[f].frame.Header.disableDefaultResponse
        /\ Len(devices) = 1 /\ devices[1].modelID = Unset /\ devices[1].endpoints = <<1>>

\* Whether frame handler h handles an attribute report or read response that
\* carries a model id, and the model id it carries.
CarriedModelId(h) ==
    Data_modelId(ZclFrameConverter_attributeList(h.frame))
CarriesModelId(h) ==
    /\ h.frame.Header.frameType = FrameType_GLOBAL
    /\ h.frame.Header.commandIdentifier \in {Foundation_report_ID, Foundation_readRsp_ID}
    /\ CarriedModelId(h) # Unset

\* The handlers of frames of Device d that carry a model id, by arrival.
Carriers(d) ==
    {f \in 1..Len(frames) : frames[f].device = d /\ CarriesModelId(frames[f])}

\* C9 as claimed: when all frames are handled, a device whose model id was
\* unset holds the model id of the first delivered frame that carries one.
C9_FirstDeliveredWins ==
    AllFramesDone =>
        \A d \in 1..Len(devices) :
            Carriers(d) # {} =>
                LET first == CHOOSE f \in Carriers(d) : \A g \in Carriers(d) : f <= g
                IN  devices[d].modelID = CarriedModelId(frames[first])

\* C9 amended: a set model id is never changed; a model id becomes set only
\* in a step of a handler of an attribute report or read response of that
\* device, to the value that frame carries; and no such handler passes the
\* backfill check leaving the model id unset.  So the stored model id is the
\* one of the first frame to reach the backfill check.
C9_BackfillOnce ==
    [][\A d \in 1..Len(devices) :
          /\ devices[d].modelID # Unset => devices'[d].modelID = devices[d].modelID
          /\ (devices[d].modelID = Unset /\ devices'[d].modelID # Unset) =>
                \E f \in Carriers(d) :
                    /\ frames'[f] # frames[f]
                    /\ devices'[d].modelID = CarriedModelId(frames[f])
          /\ \A f \in Carriers(d) :
                frames'[f].pc \in {"set", "done"} => devices'[d].modelID # Unset
      ]_vars

\* C9 witness: two frames of one device carried different model ids; the one
\* delivered second reached the backfill first and its value is stored, the
\* first delivered one wrote nothing but its endpoint.
C9_Witness ==
    \E f, g \in 1..Len(frames) :
        /\ f < g
        /\ frames[f].device = frames[g].device /\ frames[f].device # NoDevice
        /\ CarriesModelId(frames[f]) /\ CarriesModelId(frames[g])
        /\ CarriedModelId(frames[f]) # CarriedModelId(frames[g])
        /\ frames[f].pc = "done" /\ frames[g].pc = "done"
        /\ frames[g].writes = <<"modelID">>
        /\ frames[f].writes = <<"createEndpoint">>
        /\ devices[frames[g].device].modelID = CarriedModelId(frames[g])

\* The message kind the classification rules give a frame.
ExpectedKind(frame) ==
    CASE frame.Header.frameType = FrameType_GLOBAL
           /\ frame.Header.commandIdentifier = Foundation_report_ID -> "attributeReport"
      [] frame.Header.frameType = FrameType_GLOBAL
           /\ frame.Header.commandIdentifier = Foundation_readRsp_ID -> "readResponse"
      [] frame.Header.frameType = FrameType_SPECIFIC -> CommandsLookup(frame.name)
      [] OTHER -> "none"

\* C10: the handler of a frame of a known device emits nothing but message
\* events, at most one, of the kind the rules give the frame, for the
\* frame's device and endpoint; when it has ended it has emitted exactly one
\* if the rules give the frame a kind and none otherwise.
C10_MessageIffClassified ==
    \A f \in 1..Len(frames) :
        frames[f].device # NoDevice =>
            LET msgs == FrameMessages(f)
                kind == ExpectedKind(frames[f].frame)
            IN  /\ FrameEvents(f) = msgs
                /\ Len(msgs) <= 1
                /\ \A i \in 1..Len(msgs) :
                       /\ msgs[i].status = kind /\ kind # "none"
                       /\ msgs[i].device = frames[f].device
                       /\ msgs[i].endpoint = frames[f].endpoint
                /\ frames[f].pc = "done" =>
                       Len(msgs) = (IF kind # "none" THEN 1 ELSE 0)

\* C10 witness: of a known device, the cluster command in the lookup table
\* got its message event and a reserved-type frame with the report id none.
C10_Witness ==
    \E f, g \in 1..Len(frames) :
        /\ frames[f].pc = "done" /\ frames[g].pc = "done"
        /\ frames[f].device # NoDevice /\ frames[g].device # NoDevice
        /\ frames[f].frame.Header.frameType = FrameType_SPECIFIC
        /\ frames[f].frame.name = "on"
        /\ Len(FrameMessages(f)) = 1 /\ FrameMessages(f)[1].status = "commandOn"
        /\ frames[g].frame.Header.frameType \notin {FrameType_GLOBAL, FrameType_SPECIFIC}
        /\ frames[g].frame.Header.commandIdentifier = Foundation_report_ID
        /\ FrameMessages(g) = <<>>

\* ------------------------------------------------------------ join admission
\* The commands invocation `by` issued to the adapter, in order.
AdapterCallsBy(by) == SelectSeq(adapterCalls, LAMBDA c : c.by = by)

\* C11: under any interleaving of permitJoin(true) and permitJoin(false)
\* calls, a second permitJoin(true) made while the first still waits for the
\* adapter included, at most one renewal timer is armed; and a
\* permitJoin(true) that finds joining enabled issues no adapter command and
\* arms no timer.
C11_AtMostOneRenewalTimer ==
    /\ Cardinality(timers) <= 1
    /\ \A p \in 1..Len(permits) :
           (permits[p].permit /\ permits[p].pc = "done"
                /\ AdapterCallsBy(<<"permitJoin", p>>) = <<>>)
               => permits[p].armed = NoTimer

\* C12: getPermitJoin() returns true exactly when a renewal timer is armed:
\* false before any permitJoin call, true once permitJoin(true) has
\* completed, false again after a later permitJoin(false).
C12_GetPermitJoinReflectsTimer ==
    GetPermitJoin <=> (permitJoinTimer # NoTimer /\ timers # {})

\* The places in the adapter's log of the commands invocation `by` issued.
CallIndexes(by) == {i \in 1..Len(adapterCalls) : adapterCalls[i].by = by}

\* The adapter was asked to open joining at place i of its log.
OpensJoining(i) ==
    adapterCalls[i].cmd = "permitJoin" /\ adapterCalls[i].arg = PermitJoinOpen

\* C13: permitJoin(false) issues permit-join(0) and cancels the timer; once
\* it has completed, and until a later permitJoin(true) call is made, no
\* renewal timer is armed and no permit-join(254) is issued, also when an
\* earlier permitJoin(true) was still waiting for the adapter.
C13_DisabledAfterPermitJoinFalse ==
    \A p \in 1..Len(permits) :
        (~permits[p].permit /\ permits[p].pc = "done"
             /\ \A q \in (p + 1)..Len(permits) : ~permits[q].permit)
        => /\ \E i \in CallIndexes(<<"permitJoin", p>>) :
                  adapterCalls[i].arg = PermitJoinClose
           /\ timers = {}
           /\ \A i \in CallIndexes(<<"permitJoin", p>>) :
                  \A k \in (i + 1)..Len(adapterCalls) : ~OpensJoining(k)

\* C14: once armed, the renewal timer reissues permit-join(254) at every
\* tick: a tick issues exactly that command and leaves the timer armed,
\* whether the adapter accepts the command or fails it; an armed timer is
\* taken away only by the disable branch of permitJoin (called directly or
\* by stop).
C14_TickRenewsAndKeepsTimer ==
    [][ /\ (ticks' # ticks) =>
               /\ \E t \in timers :
                      adapterCalls' = Append(adapterCalls,
                          AdapterCall("permitJoin", PermitJoinOpen,
                                      <<"timer", t>>))
               /\ timers' = timers
               /\ permitJoinTimer' = permitJoinTimer
        /\ ~(timers \subseteq timers') =>
               /\ Len(adapterCalls') = Len(adapterCalls) + 1
               /\ adapterCalls'[Len(adapterCalls')].cmd = "permitJoin"
               /\ adapterCalls'[Len(adapterCalls')].arg = PermitJoinClose
               /\ adapterCalls'[Len(adapterCalls')].by[1]
                      \in {"permitJoin", "stop"} ]_vars

\* The adapter failed the command of one tick of a timer, and the same timer,
\* still armed, issued the command again at a later tick.
C14_Witness ==
    \E t \in timers :
        \E i \in CallIndexes(<<"timer", t>>) :
            /\ [by |-> <<"timer", t>>, call |-> i] \in unhandled
            /\ \E k \in CallIndexes(<<"timer", t>>) : k > i

\* The permitJoin call p was made before stop was called.
BeforeStop(p) == ~permits[p].afterStop

\* A command that comes from a permitJoin call made before stop was called:
\* issued by the call itself or by the timer it armed.
FromBeforeStop(by) ==
    \/ by[1] = "permitJoin" /\ BeforeStop(by[2])
    \/ /\ by[1] = "timer"
       /\ \E p \in 1..Len(permits) : permits[p].armed = by[2] /\ BeforeStop(p)

\* C16: stop() issues the permit-join disable command and cancels the
\* renewal timer before it stops the adapter; once stop() has completed no
\* renewal timer is armed and no permit-join command is issued to the
\* stopped adapter, whatever permitJoin calls preceded it (calls made after
\* stop was called are left aside).
C16_StoppedAdapterGetsNoPermitJoin ==
    \A s \in 1..Len(stops) :
        \A i \in CallIndexes(<<"stop", s>>) :
            adapterCalls[i].cmd = "stop" =>
                /\ \E k \in CallIndexes(<<"stop", s>>) :
                       /\ k < i
                       /\ adapterCalls[k].cmd = "permitJoin"
                       /\ adapterCalls[k].arg = PermitJoinClose
                /\ (stops[s].pc = "done" /\ ~stops[s].raised) =>
                       /\ \A t \in timers : ~FromBeforeStop(<<"timer", t>>)
                       /\ \A k \in (i + 1)..Len(adapterCalls) :
                              adapterCalls[k].cmd = "permitJoin"
                                  => ~FromBeforeStop(adapterCalls[k].by)

\* ------------------------------------------------------------------ announce
\* The events handler a of onDeviceAnnounce emitted, in order.
AnnounceEvents(a) ==
    SelectSeq(events, LAMBDA e : e.src = "announce" /\ e.by = a)

\* What the handler of announce a has published so far is right: nothing
\* before it has finished, and then one deviceAnnounce event that carries
\* the device with the announced hardware address, or the absent reference
\* when the repository has no such device.
AnnouncePublished(a) ==
    LET h == announces[a]
        known == {i \in 1..Len(devices) : devices[i].ieeeAddr = h.ieeeAddr}
    IN  /\ h.pc # "done" => AnnounceEvents(a) = <<>>
        /\ h.pc = "done" =>
               /\ Len(AnnounceEvents(a)) = 1
               /\ AnnounceEvents(a)[1].type = "deviceAnnounce"
               /\ AnnounceEvents(a)[1].device = h.device
        /\ IF known = {} THEN h.device = NoDevice ELSE h.device \in known

\* C15: handling a device-announce never starts an interview, never
\* publishes a deviceJoined or interview event and never writes to the
\* repository; it publishes exactly one deviceAnnounce event, carrying the
\* Device found by the announced hardware address or an absent reference.
C15_AnnounceOnlyRepublishes ==
    /\ [](\A a \in 1..Len(announces) : AnnouncePublished(a))
    /\ [][announces' # announces =>
              /\ devices' = devices
              /\ \A k \in (Len(events) + 1)..Len(events') :
                     events'[k].type = "deviceAnnounce"]_vars

\* Two announces were handled to the end: one of a device the repository
\* holds, one of a device it does not hold.
C15_Witness ==
    \E a, b \in 1..Len(announces) :
        /\ announces[a].pc = "done" /\ announces[a].device # NoDevice
        /\ announces[b].pc = "done" /\ announces[b].device = NoDevice
        /\ Len(AnnounceEvents(a)) = 1 /\ Len(AnnounceEvents(b)) = 1

\* --------------------------------------------------------------------- start
\* The coordinator records of the repository.
Coordinators == {i \in 1..Len(devices) : devices[i].type = "Coordinator"}

\* Invocation s of start asked the adapter who the coordinator is.
AskedCoordinator(s) ==
    \E i \in CallIndexes(<<"start", s>>) : adapterCalls[i].cmd = "getCoordinator"

EndpointsOf(d, id) ==
    {i \in 1..Len(devices[d].endpoints) : devices[d].endpoints[i] = id}

\* Handler f created an Endpoint.
CreatedEndpoint(f) ==
    \E i \in 1..Len(frames[f].writes) : frames[f].writes[i] = "createEndpoint"

\* C18: once a frame of a known device that references endpoint id e has
\* been handled, the device has an Endpoint with id e; a device never holds
\* two Endpoints with the same id, under any interleaving of frames; and an
\* Endpoint is created only by a frame that references an id the device
\* did not have.
C18_EndpointCreatedOnce ==
    /\ \A d \in 1..Len(devices) :
           \A i, k \in 1..Len(devices[d].endpoints) :
               devices[d].endpoints[i] = devices[d].endpoints[k] => i = k
    /\ \A f \in 1..Len(frames) :
           /\ (frames[f].device # NoDevice
                   /\ frames[f].pc # "findByNetworkAddress")
                  => EndpointsOf(frames[f].device, frames[f].endpoint) # {}
           /\ CreatedEndpoint(f) =>
                  /\ frames[f].device # NoDevice
                  /\ \A i \in 1..Len(PersistedDevice(Unset).endpoints) :
                         PersistedDevice(Unset).endpoints[i] # frames[f].endpoint
                  /\ \A g \in 1..Len(frames) :
                         (g # f /\ CreatedEndpoint(g)
                              /\ frames[g].device = frames[f].device)
                             => frames[g].endpoint # frames[f].endpoint

\* Two frames of the same device that reference the same missing endpoint
\* were handled: one created the Endpoint, the other found it.
C18_Witness ==
    \E f, g \in 1..Len(frames) :
        /\ f # g
        /\ frames[f].device # NoDevice
        /\ frames[g].device = frames[f].device
        /\ frames[g].endpoint = frames[f].endpoint
        /\ frames[f].pc = "done" /\ frames[g].pc = "done"
        /\ CreatedEndpoint(f) /\ ~CreatedEndpoint(g)
        /\ Cardinality(EndpointsOf(frames[f].device, frames[f].endpoint)) = 1

\* -------------------------------------------------- what start leaves behind
\* C19: start() sends no application command to any device or group, when
\* it is called or later, and nothing it scheduled raises an error after it
\* has returned.
C19_StartSendsNothing ==
    /\ appCommands = <<>>
    /\ \A u \in unhandled : u.by[1] # "timeout"

\* ---------------------------------------------------------------- disconnect
\* The events handler d of onAdapterDisconnected emitted, in order.
DisconnectEvents(d) ==
    SelectSeq(events, LAMBDA e : e.src = "disconnect" /\ e.by = d)

\* C20: for each adapter-disconnected event the controller attempts to
\* stop the adapter and then publishes exactly one adapterDisconnected
\* event; the event is published, and the handler ends without raising,
\* also when stopping the adapter fails.
C20_DisconnectPublishedOnce ==
    \A d \in 1..Len(disconnects) :
        /\ Cardinality(CallIndexes(<<"disconnect", d>>)) = 1
        /\ \A i \in CallIndexes(<<"disconnect", d>>) :
               adapterCalls[i].cmd = "stop"
        /\ disconnects[d].pc # "done" => DisconnectEvents(d) = <<>>
        /\ disconnects[d].pc = "done" =>
               /\ ~disconnects[d].raised
               /\ Len(DisconnectEvents(d)) = 1
               /\ DisconnectEvents(d)[1].type = "adapterDisconnected"

\* A disconnect was handled to the end although the adapter failed to stop.
C20_Witness ==
    \E d \in 1..Len(disconnects) :
        /\ disconnects[d].pc = "done"
        /\ disconnects[d].failed
        /\ Len(DisconnectEvents(d)) = 1

====
